---- MODULE Spec2Model ----
(***************************************************************************)
(* The cached low-resolution clocks of seastar (core/lowres_clock.hh and   *)
(* its variants): one refresher object, driven by a periodic timer on      *)
(* CPU0, samples the precise steady and system clocks into two static      *)
(* atomic cells which every CPU reads with a relaxed load.                 *)
(* With them: the logging options of util/log-cli.hh and the tuple         *)
(* generators of util/tuple_utils.hh.                                      *)
(***************************************************************************)
EXTENDS Integers, FiniteSets, Sequences, TLC

\* ------------------------------------------------------------------ units
\* std::chrono::steady_clock / system_clock count nanoseconds; the cells count
\* periods of std::ratio<1, 1000>.
NsPerMs == 1000000

\* static constexpr auto _granularity = std::chrono::milliseconds(10)
GranularityMs == 10

_granularity == GranularityMs * NsPerMs

\* using period = std::ratio<1, 1000>: a second is 1000 periods of the cached clocks.
MsPerSec == 1000

\* static constexpr auto sleep_duration = std::chrono::milliseconds(100), and
\* ::seastar::sleep(std::chrono::milliseconds(100)) in system_clock_dynamic.
SleepMs == 100

sleep_duration == SleepMs * NsPerMs

\* The precise clocks advance in quanta of 5 ms; the readings keep a
\* sub-millisecond part so that the conversion to milliseconds truncates.
Quantum == 5 * NsPerMs

\* ----------------------------------------------------------------- bounds
MaxTicks == 4

MaxInstances == 2

MaxAdjusts == 1

\* std::time_t and the cached clocks' rep are 64-bit signed integers; the
\* calendar conversions are checked on two's-complement integers of RepBits
\* bits, which keeps the place where a count times 1000 leaves the range.
RepBits == 16

\* The calendar conversions are applied to the seconds -MaxCalendarSec ..
\* MaxCalendarSec around the epoch, with every kind of sub-second part, and to
\* the ends of the range.
MaxCalendarSec == 2

\* By how many quanta past its expiry the sleep's timer may be served.
MaxLateTicks == 1

\* The longest value of --logger-log-level parsed, in pieces.
MaxLen == 3

\* The longest integer sequence a tuple is generated from, but for the
\* sequence of the tests.
MaxIs == 3

\* The sleep of the wall-clock scenario: 150 ms.
ScenarioSleepMs == 150

\* The busy-wait of the steady-clock scenario: 100 ms.
BusyWaitMs == 100

\* The steady clock's reading when the program starts (5.75 ms after its epoch).
SteadyStart == Quantum + (3 * NsPerMs) \div 4

\* The system clock's reading when the program starts (995.5 ms after 1970).
SystemStart == 199 * Quantum + NsPerMs \div 2

\* CPU0 runs the refresher; the other contexts only read.
Designated == "cpu0"

\* CPU0 and one other CPU, which stands for every reader that is not CPU0.
Contexts == {"cpu0", "cpu1"}

Instances == 1 .. MaxInstances

VARIABLES
    steady_clock,    \* std::chrono::steady_clock::now(), in ns since its epoch
    system_clock,    \* std::chrono::system_clock::now(), in ns since its epoch
    ticks,           \* quanta elapsed since the program started
    adjusts,         \* external corrections applied to the system clock
    _system_count,   \* lowres_clock_impl::_system_count and where its content came from
    _steady_count,   \* lowres_clock_impl::_steady_count and where its content came from
    st,              \* lifecycle of each lowres_clock_impl object
    _timer,          \* the timer<> member of each lowres_clock_impl object
    task,            \* what CPU0 is executing, with update()'s locals
    seen,            \* the latest now() call: its clock, result, caller and phase, the
                     \* caller of the call before it when that read the same content,
                     \* whether the clock's cell has been stored to since, and
                     \* whether the refresh was overdue when the call was made
    _base,           \* lowres_system_clock::_base (lowres_system_clock.hh)
    _ref,            \* lowres_system_clock::_ref  (lowres_system_clock.hh)
    ref_made,        \* whether lowres_system_clock's private constructor has run
    cal,             \* the latest calendar conversion: operation, argument, result
    _now,            \* clock_impl<...>::_now of lowres_clocks.hh, one per instantiation
    clock_impl_timer,\* clock_impl<...>::_timer of the object of each instantiation
    clock_impl_task, \* what CPU0 is executing of clock_impl, with update()'s local
    sleeper,         \* the test case sleeping or busy-waiting: its context, the wall
                     \* time it noted before constructing, its first reading, when
                     \* its wait started and ends, and its second reading
    global_log_registry, \* the registered loggers, by name, with their levels
    logger_outputs,  \* logger's static switches: output to stdout, to syslog
    cli,             \* the latest parse_and_configure: its command line, what it
                     \* threw and the associations parsed
    generated,       \* the latest tuple generated: the sequence, the function, the
                     \* tuple returned and the arguments of the calls of f, in order
    compared         \* the latest now() made side by side on the variants of the
                     \* cached clock: the clock and what each variant returned

vars == <<steady_clock, system_clock, ticks, adjusts, _system_count, _steady_count,
          st, _timer, task, seen, _base, _ref, ref_made, cal,
          _now, clock_impl_timer, clock_impl_task, sleeper,
          global_log_registry, logger_outputs, cli, generated, compared>>

\* The precise clocks.
clocks == <<steady_clock, system_clock, ticks, adjusts>>

\* The state of lowres_clock.hh and lowres_system_clock.hh and of their callers.
refresher == <<_system_count, _steady_count, st, _timer, task, seen, _base, _ref, ref_made>>

\* The state of lowres_clocks.hh: lowres_clock_impl and lowres_system_clock_impl.
generic == <<_now, clock_impl_timer, clock_impl_task>>

\* The state of util/log-cli.hh and of the loggers it configures.
logging == <<global_log_registry, logger_outputs, cli>>

\* What the cached clocks never touch.
utilities == <<logging, generated, compared>>

\* What the refresher, its readers and the precise clocks never touch.
others == <<cal, generic, sleeper, utilities>>

\* ------------------------------------------------------------ conversions
\* A conversion that rounds up instead of truncating.
now_count_rounds_up(ns) == (ns + NsPerMs - 1) \div NsPerMs

\* A count kept in a rep too narrow for it wraps around.
now_count_narrow(ns) == (ns \div NsPerMs) % 16

\* std::chrono::duration_cast<Duration>(BaseClock::now().time_since_epoch()).count()
\* from nanoseconds to milliseconds: integer division, truncating.
now_count(ns) == ns \div NsPerMs

\* A count together with its provenance: the clock that was read, the raw
\* reading, the instant (on the steady time line) of the read.
Reading(clock, raw, at) ==
    [count |-> now_count(raw), clock |-> clock, raw |-> raw, at |-> at]

\* The content of a static std::atomic before any store: zero-initialised.
Unset == [count |-> 0, clock |-> "none", raw |-> 0, at |-> 0]

Idle == [at |-> "idle", who |-> 0, via |-> "none", system_count |-> Unset, steady_count |-> Unset]

\* No now() call yet.
NeverCalled ==
    [clock |-> "none", val |-> 0, failed |-> FALSE, ctx |-> "none", phase |-> "none",
     prior |-> "none", dirty |-> FALSE, starved |-> FALSE]

\* The two instantiations of clock_impl, named by their BaseClock:
\* lowres_clock_impl and lowres_system_clock_impl.
BaseClocks == {"steady", "system"}

\* The content of clock_impl's static std::atomic<rep> _now before any store,
\* with where a content came from: the clock read, the instant on the steady
\* time line, the caller of update() and the number of that update() run.
NoReading == [count |-> 0, clock |-> "none", at |-> 0, by |-> "none", run |-> 0]

\* CPU0 is not inside clock_impl's constructor or update(); runs counts the
\* update() runs so far.
NoUpdate == [at |-> "idle", who |-> "none", via |-> "none", count |-> NoReading, runs |-> 0]

\* No test case has run.
NotSleeping ==
    [at |-> "none", test |-> "none", ctx |-> "none", t0 |-> 0, t1 |-> 0, start |-> 0,
     wake |-> 0, t2 |-> 0]

\* No calendar conversion made yet.
NoConversion == [op |-> "none", arg |-> 0, res |-> 0]

\* An empty sstring; a string is the sequence of its pieces, each piece a
\* ':' , a '=' or a run of other characters.
Empty == << >>

\* global_log_registry() with no logger constructed.
NoLoggers == [n \in {} |-> "info"]

\* logger_levels(): an empty std::unordered_map<sstring, sstring>.
logger_levels == [k \in {} |-> Empty]

\* parse_and_configure has not been called.
NotParsed ==
    [called |-> FALSE, args |-> << >>, thrown |-> "none", lv |-> logger_levels]

\* No tuple has been generated.
NotGenerated == [by |-> "none", Is |-> << >>, f |-> "none", result |-> << >>, calls |-> << >>]

\* No now() has been made side by side on the variants.
NotCompared == [clock |-> "none", ctx |-> "none", ms |-> 0, native |-> 0, generic |-> 0]

\* timer<> _timer{}: no callback, not armed.
NewTimer == [callback |-> FALSE, armed |-> FALSE, expiry |-> 0]

Init ==
    /\ steady_clock = SteadyStart
    /\ system_clock = SystemStart
    /\ ticks = 0
    /\ adjusts = 0
    /\ _system_count = Unset
    /\ _steady_count = Unset
    /\ st = [i \in Instances |-> "Uninitialized"]
    /\ _timer = [i \in Instances |-> NewTimer]
    /\ task = Idle
    /\ seen = NeverCalled
    /\ _base = SystemStart
    /\ _ref = 0
    /\ ref_made = FALSE
    /\ cal = NoConversion
    /\ _now = [k \in BaseClocks |-> NoReading]
    /\ clock_impl_timer = [k \in BaseClocks |-> NewTimer]
    /\ clock_impl_task = NoUpdate
    /\ sleeper = NotSleeping
    /\ global_log_registry = NoLoggers
    /\ logger_outputs = [stdout |-> TRUE, syslog |-> FALSE]
    /\ cli = NotParsed
    /\ generated = NotGenerated
    /\ compared = NotCompared

\* ------------------------------------------------------------ environment
\* Time passes: both precise clocks advance by one quantum.
Tick ==
    /\ ticks < MaxTicks
    /\ ticks' = ticks + 1
    /\ steady_clock' = steady_clock + Quantum
    /\ system_clock' = system_clock + Quantum
    /\ UNCHANGED others
    /\ UNCHANGED <<adjusts, _system_count, _steady_count, st, _timer, task, seen,
                   _base, _ref, ref_made>>

\* An external correction sets the system clock back or forward.
AdjustSystemClock(d) ==
    /\ adjusts < MaxAdjusts
    /\ adjusts' = adjusts + 1
    /\ system_clock' = system_clock + d
    /\ UNCHANGED others
    /\ UNCHANGED <<steady_clock, ticks, _system_count, _steady_count, st, _timer, task,
                   seen, _base, _ref, ref_made>>

Adjustments == {0 - 2 * Quantum}

\* The sums of the corrections applied so far that the system clock may carry.
AdjustTotals == {a * d : a \in 0 .. adjusts, d \in Adjustments}


\* ---------------------------------------------------------------- phases
\* The refresher's lifecycle as the readers see it: Active while some
\* lowres_clock_impl object is alive, Torn-down when every constructed object
\* has been destroyed, Uninitialized before the first construction.
Phase ==
    IF \E i \in Instances : st[i] = "Active" THEN "Active"
    ELSE IF \E i \in Instances : st[i] = "Constructing" THEN "Constructing"
    ELSE IF \E i \in Instances : st[i] = "TornDown" THEN "TornDown"
    ELSE "Uninitialized"

\* ------------------------------------------------------- lowres_clock_impl
\* A steady_now() that reads the precise clock rather than the cell.
steady_now_uncached(cell) ==
    [failed |-> FALSE, val |-> now_count(steady_clock), src |-> "steady"]

\* A steady_now() that fails fast while the cell was never stored to.
steady_now_checked(cell) ==
    [failed |-> cell.clock = "none", val |-> cell.count, src |-> cell.clock]

\* A steady_now() that signals a reading two periods old as stale.
steady_now_signals_stale(cell) ==
    [failed |-> steady_clock - cell.at >= 2 * _granularity, val |-> cell.count,
     src |-> cell.clock]

\* steady_now(): TimePoint(steady_duration(_steady_count.load(relaxed))).
\* The load is unconditional: no lifecycle check, no failure path.
steady_now(cell) == [failed |-> FALSE, val |-> cell.count, src |-> cell.clock]

\* system_now(): TimePoint(system_duration(_system_count.load(relaxed))).
system_now(cell) == [failed |-> FALSE, val |-> cell.count, src |-> cell.clock]

\* An update() that leaves the system cell as it is.
update_system_value_stale(t) == _system_count

\* update() line 251: _system_count.store(system_count, relaxed)
update_system_value(t) == t.system_count

\* update() storing the system clock's count in the steady cell.
update_steady_value_swapped(t) == t.system_count

\* update() line 252: _steady_count.store(steady_count, relaxed)
update_steady_value(t) == t.steady_count

\* A constructor that arms the timer without refreshing first.
ctor_entry_skips_update == "arm"

\* The constructor's first statement is update().
ctor_entry == "read_system"

\* A timer callback that skips update()'s read of the system clock.
callback_entry_skips_system == "read_steady"

\* The timer callback set by the constructor is update().
callback_entry == "read_system"

\* An arm_periodic that leaves the timer as it is: it never expires.
timer_arm_periodic_ignored(t, now, delta) == t

\* timer<>::arm_periodic(delta): expires delta from now, then every delta.
timer_arm_periodic(t, now, delta) == [t EXCEPT !.armed = TRUE, !.expiry = now + delta]

\* timer<>::cancel(), also run by ~timer(): a timer that is not armed stays so.
\* The expiry of a cancelled timer is dead data.
timer_cancel(t) == [t EXCEPT !.armed = FALSE, !.expiry = 0]

\* The latest call's record once cell k has been stored to.
stored_since(k) == IF seen.clock = k THEN [seen EXCEPT !.dirty = TRUE] ELSE seen

\* Whether CPU0 may start a new task: it runs one task at a time, to completion.
cpu0_idle == task.at = "idle"

\* A constructor that arms the timer first and refreshes afterwards.
lowres_clock_impl_ctor_arms_first(i) ==
    /\ cpu0_idle
    /\ st[i] = "Uninitialized"
    /\ \A j \in Instances : j < i => st[j] # "Uninitialized"
    /\ st' = [st EXCEPT ![i] = "Constructing"]
    /\ _timer' = [_timer EXCEPT
                    ![i] = timer_arm_periodic([_timer[i] EXCEPT !.callback = TRUE],
                                              steady_clock, _granularity)]
    /\ task' = [Idle EXCEPT !.at = ctor_entry, !.who = i, !.via = "ctor"]
    /\ UNCHANGED others
    /\ UNCHANGED <<steady_clock, system_clock, ticks, adjusts, _system_count,
                   _steady_count, seen, _base, _ref, ref_made>>

\* explicit lowres_clock_impl(private_token): entry. The constructor holds no
\* check for an object that already exists.
lowres_clock_impl_ctor(i) ==
    /\ cpu0_idle
    /\ st[i] = "Uninitialized"
    /\ \A j \in Instances : j < i => st[j] # "Uninitialized"
    /\ st' = [st EXCEPT ![i] = "Constructing"]
    /\ task' = [Idle EXCEPT !.at = ctor_entry, !.who = i, !.via = "ctor"]
    /\ UNCHANGED others
    /\ UNCHANGED <<steady_clock, system_clock, ticks, adjusts, _system_count,
                   _steady_count, _timer, seen, _base, _ref, ref_made>>

\* update(): auto const system_count = now_count<system_duration, system_base_clock>()
update_read_system ==
    /\ task.at = "read_system"
    /\ task' = [task EXCEPT !.system_count = Reading("system", system_clock, steady_clock),
                            !.at = "read_steady"]
    /\ UNCHANGED others
    /\ UNCHANGED <<steady_clock, system_clock, ticks, adjusts, _system_count,
                   _steady_count, st, _timer, seen, _base, _ref, ref_made>>

\* update(): auto const steady_count = now_count<steady_duration, steady_base_clock>()
update_read_steady ==
    /\ task.at = "read_steady"
    /\ task' = [task EXCEPT !.steady_count = Reading("steady", steady_clock, steady_clock),
                            !.at = "store_system"]
    /\ UNCHANGED others
    /\ UNCHANGED <<steady_clock, system_clock, ticks, adjusts, _system_count,
                   _steady_count, st, _timer, seen, _base, _ref, ref_made>>

\* update(): _system_count.store(system_count, std::memory_order_relaxed)
update_store_system ==
    /\ task.at = "store_system"
    /\ _system_count' = update_system_value(task)
    /\ seen' = stored_since("system")
    /\ task' = [task EXCEPT !.at = "store_steady"]
    /\ UNCHANGED others
    /\ UNCHANGED <<steady_clock, system_clock, ticks, adjusts, _steady_count, st,
                   _timer, _base, _ref, ref_made>>

\* update(): _steady_count.store(steady_count, std::memory_order_relaxed); return.
\* In the constructor the next statement is _timer.set_callback.
update_store_steady ==
    /\ task.at = "store_steady"
    /\ _steady_count' = update_steady_value(task)
    /\ seen' = stored_since("steady")
    /\ task' = IF task.via = "ctor" THEN [task EXCEPT !.at = "arm"] ELSE Idle
    /\ UNCHANGED others
    /\ UNCHANGED <<steady_clock, system_clock, ticks, adjusts, _system_count, st,
                   _timer, _base, _ref, ref_made>>

\* constructor: _timer.set_callback(&lowres_clock_impl::update);
\*              _timer.arm_periodic(_granularity); the constructor returns.
ctor_arm_periodic ==
    /\ task.at = "arm"
    /\ _timer' = [_timer EXCEPT
                    ![task.who] = timer_arm_periodic([_timer[task.who] EXCEPT !.callback = TRUE],
                                                     steady_clock, _granularity)]
    /\ st' = [st EXCEPT ![task.who] = "Active"]
    /\ task' = Idle
    /\ UNCHANGED others
    /\ UNCHANGED <<steady_clock, system_clock, ticks, adjusts, _system_count,
                   _steady_count, seen, _base, _ref, ref_made>>

\* The periodic timer of object i expires: the reactor of CPU0 re-arms it one
\* period from now and runs its callback. Nothing bounds how late this happens.
timer_expired(i) ==
    /\ cpu0_idle
    /\ _timer[i].armed
    /\ _timer[i].callback
    /\ steady_clock >= _timer[i].expiry
    /\ _timer' = [_timer EXCEPT ![i] = timer_arm_periodic(_timer[i], steady_clock, _granularity)]
    /\ task' = [Idle EXCEPT !.at = callback_entry, !.who = i, !.via = "timer"]
    /\ UNCHANGED others
    /\ UNCHANGED <<steady_clock, system_clock, ticks, adjusts, _system_count,
                   _steady_count, st, seen, _base, _ref, ref_made>>

\* A destructor run from another context while CPU0 may be inside update().
lowres_clock_impl_dtor_off_cpu0(i) ==
    /\ st[i] = "Active"
    /\ _timer' = [_timer EXCEPT ![i] = timer_cancel(_timer[i])]
    /\ st' = [st EXCEPT ![i] = "TornDown"]
    /\ UNCHANGED others
    /\ UNCHANGED <<steady_clock, system_clock, ticks, adjusts, _system_count,
                   _steady_count, task, seen, _base, _ref, ref_made>>

\* ~lowres_clock_impl(): the implicit destructor destroys _timer, which cancels
\* it. It runs on CPU0, like everything else that touches the object.
lowres_clock_impl_dtor(i) ==
    /\ cpu0_idle
    /\ st[i] = "Active"
    /\ _timer' = [_timer EXCEPT ![i] = timer_cancel(_timer[i])]
    /\ st' = [st EXCEPT ![i] = "TornDown"]
    /\ UNCHANGED others
    /\ UNCHANGED <<steady_clock, system_clock, ticks, adjusts, _system_count,
                   _steady_count, task, seen, _base, _ref, ref_made>>

\* ------------------------------------------------------------ the facades
\* Readers that wait while an update() is in flight, as under a lock.
may_call_waits_for_update(c) == cpu0_idle

\* A context other than CPU0 calls at any time; CPU0 calls between its tasks.
may_call(c) == c # Designated \/ cpu0_idle

\* The timer callback of an object is a whole period or more overdue: CPU0 has
\* not come round to run it.
RefreshStarved ==
    \E i \in Instances : _timer[i].armed /\ steady_clock >= _timer[i].expiry + _granularity

Called(k, r, c) ==
    [clock |-> k, val |-> r.val, failed |-> r.failed, ctx |-> c, phase |-> Phase,
     prior |-> IF seen.clock = k /\ ~seen.dirty THEN seen.ctx ELSE "none",
     dirty |-> FALSE, starved |-> RefreshStarved]

\* lowres_clock::now(): return lowres_clock_impl::steady_now<time_point>()
lowres_clock_now(c) ==
    /\ may_call(c)
    /\ seen' = Called("steady", steady_now(_steady_count), c)
    /\ UNCHANGED others
    /\ UNCHANGED <<steady_clock, system_clock, ticks, adjusts, _system_count,
                   _steady_count, st, _timer, task, _base, _ref, ref_made>>

\* lowres_system_clock::now(): return lowres_clock_impl::system_now<time_point>()
lowres_system_clock_now(c) ==
    /\ may_call(c)
    /\ seen' = Called("system", system_now(_system_count), c)
    /\ UNCHANGED others
    /\ UNCHANGED <<steady_clock, system_clock, ticks, adjusts, _system_count,
                   _steady_count, st, _timer, task, _base, _ref, ref_made>>

\* ------------------------------------------- lowres_system_clock.hh variant
\* lowres_system_clock's private constructor, run by smp::configure once the
\* steady clock is running: captures the first lowres_clock time point.
lowres_system_clock_ctor ==
    /\ cpu0_idle
    /\ ~ref_made
    /\ \E i \in Instances : st[i] = "Active"
    /\ _ref' = steady_now(_steady_count).val
    /\ ref_made' = TRUE
    /\ UNCHANGED others
    /\ UNCHANGED <<steady_clock, system_clock, ticks, adjusts, _system_count,
                   _steady_count, st, _timer, task, seen, _base>>

\* A now() that returns the system cell's count, as lowres_clock.hh's does.
lowres_system_clock_now_from_system_cell(cell) == system_now(_system_count)

\* lowres_system_clock::now() of lowres_system_clock.hh:
\*   elapsed = lowres_clock::now().time_since_epoch() - _ref;
\*   time_point(duration_cast<duration>(_base + duration_cast<system_clock::duration>(elapsed)))
lowres_system_clock_now_from_ref(cell) ==
    [failed |-> FALSE,
     val |-> now_count(_base + (steady_now(cell).val - _ref) * NsPerMs),
     src |-> steady_now(cell).src]

\* -------------------------------------------------------- the sleep tests
\* Time passes while the test case sleeps, up to the sleep's expiry and the
\* lateness of CPU0's reactor in serving it. The quanta of a sleep pass between
\* the tasks of CPU0: an update() is short against a quantum, and what delays
\* a refresh here is its timer being served late.
SleepTick ==
    /\ cpu0_idle
    /\ sleeper.at = "sleeping"
    /\ steady_clock < sleeper.wake + MaxLateTicks * Quantum
    /\ ticks' = ticks + 1
    /\ steady_clock' = steady_clock + Quantum
    /\ system_clock' = system_clock + Quantum
    /\ UNCHANGED <<adjusts, refresher, others>>

\* ::seastar::sleep(d): a timer on the steady clock, armed to expire d from now.
sleep(test, t1, d) ==
    [at |-> "sleeping", test |-> test, ctx |-> Designated, t0 |-> sleeper.t0, t1 |-> t1,
     start |-> steady_clock, wake |-> steady_clock + d, t2 |-> 0]

\* CPU0's reactor serves every timer that has expired before it runs the
\* continuation of the sleep: no timer of the refresher is due at that point.
sleep_served ==
    /\ cpu0_idle
    /\ sleeper.at = "sleeping"
    /\ steady_clock >= sleeper.wake
    /\ \A i \in Instances : _timer[i].armed => _timer[i].expiry > steady_clock

\* steady_clock_sanity: do_with(lowres_clock::now(), ...) and
\* ::seastar::sleep(sleep_duration), run as a task of CPU0's reactor inside
\* the application.
steady_clock_sanity ==
    /\ cpu0_idle
    /\ sleeper.at = "none"
    /\ Phase = "Active"
    /\ sleeper' = sleep("steady_clock_sanity", steady_now(_steady_count).val, sleep_duration)
    /\ UNCHANGED <<utilities, clocks, refresher, cal, generic>>

\* steady_clock_sanity, the continuation: auto const elapsed = lowres_clock::now() - t1
steady_clock_sanity_then ==
    /\ sleep_served
    /\ sleeper.test = "steady_clock_sanity"
    /\ sleeper' = [sleeper EXCEPT !.at = "done", !.t2 = steady_now(_steady_count).val]
    /\ UNCHANGED <<utilities, clocks, refresher, cal, generic>>

\* system_clock_dynamic: do_with(lowres_system_clock::now(), ...) and
\* ::seastar::sleep(std::chrono::milliseconds(100)).
system_clock_dynamic ==
    /\ cpu0_idle
    /\ sleeper.at = "none"
    /\ Phase = "Active"
    /\ sleeper' = sleep("system_clock_dynamic", system_now(_system_count).val, sleep_duration)
    /\ UNCHANGED <<utilities, clocks, refresher, cal, generic>>

\* system_clock_dynamic, the continuation: auto const t2 = lowres_system_clock::now()
system_clock_dynamic_then ==
    /\ sleep_served
    /\ sleeper.test = "system_clock_dynamic"
    /\ sleeper' = [sleeper EXCEPT !.at = "done", !.t2 = system_now(_system_count).val]
    /\ UNCHANGED <<utilities, clocks, refresher, cal, generic>>

\* ------------------------------------------------------- the scenarios
\* CPU0's reactor serves the refresher's timer at most MaxLateTicks quanta
\* after its expiry.
timers_served ==
    \A i \in Instances :
        _timer[i].armed => steady_clock < _timer[i].expiry + MaxLateTicks * Quantum

\* Time passes in a scenario: between the tasks of CPU0 while its timers are
\* served in time, or while CPU0 spins in a busy-wait and serves nothing;
\* before the scenario starts, during its sleep up to the lateness of the
\* sleep's own timer, and during its busy-wait until the precise steady clock
\* shows the wait is over.
ScenarioTick ==
    /\ (cpu0_idle /\ timers_served) \/ task.at = "busy_wait"
    /\ \/ sleeper.at = "none" /\ ticks < MaxTicks
       \/ sleeper.at = "sleeping" /\ steady_clock < sleeper.wake + MaxLateTicks * Quantum
       \/ sleeper.at = "busy" /\ steady_clock < sleeper.wake
    /\ ticks' = ticks + 1
    /\ steady_clock' = steady_clock + Quantum
    /\ system_clock' = system_clock + Quantum
    /\ UNCHANGED <<adjusts, refresher, others>>

\* Wall-clock scenario: note the precise wall time T0; the construction of the
\* refresher follows at once.
wall_clock_scenario ==
    /\ cpu0_idle
    /\ sleeper.at = "none"
    /\ st[1] = "Uninitialized"
    /\ sleeper' = [NotSleeping EXCEPT !.at = "constructing", !.test = "wall_clock_scenario",
                                      !.ctx = Designated, !.t0 = system_clock]
    /\ UNCHANGED <<utilities, clocks, refresher, cal, generic>>

\* Wall-clock scenario: the constructor has returned; lowres_system_clock::now()
\* is called at once and the caller sleeps 150 ms on CPU0's reactor.
wall_clock_scenario_sleep ==
    /\ cpu0_idle
    /\ sleeper.at = "constructing"
    /\ st[1] = "Active"
    /\ sleeper' = sleep("wall_clock_scenario", system_now(_system_count).val,
                        ScenarioSleepMs * NsPerMs)
    /\ UNCHANGED <<utilities, clocks, refresher, cal, generic>>

\* Wall-clock scenario, after the sleep: lowres_system_clock::now() again.
wall_clock_scenario_then ==
    /\ sleep_served
    /\ sleeper.test = "wall_clock_scenario"
    /\ sleeper' = [sleeper EXCEPT !.at = "done", !.t2 = system_now(_system_count).val]
    /\ UNCHANGED <<utilities, clocks, refresher, cal, generic>>

\* A busy-wait that gives CPU0's reactor its turn on every iteration.
busy_wait_task_yields(c) == task

\* What CPU0 executes while context c busy-waits: the loop itself when c is
\* CPU0, which returns to the reactor only when the loop ends.
busy_wait_task(c) == IF c = Designated THEN [Idle EXCEPT !.at = "busy_wait"] ELSE task

\* Steady-clock scenario on context c: S0 = lowres_clock::now(), then a loop on
\* std::chrono::steady_clock::now() until 100 ms have passed.
busy_wait_scenario(c) ==
    /\ may_call(c)
    /\ sleeper.at = "none"
    /\ Phase = "Active"
    /\ sleeper' = [NotSleeping EXCEPT !.at = "busy", !.test = "busy_wait_scenario", !.ctx = c,
                                      !.t1 = steady_now(_steady_count).val,
                                      !.start = steady_clock,
                                      !.wake = steady_clock + BusyWaitMs * NsPerMs]
    /\ task' = busy_wait_task(c)
    /\ UNCHANGED <<utilities, clocks, _system_count, _steady_count, st, _timer, seen, _base, _ref,
                   ref_made, cal, generic>>

\* Steady-clock scenario: the loop ends at the first precise reading 100 ms or
\* more after its start; S1 = lowres_clock::now().
busy_wait_scenario_then ==
    /\ sleeper.at = "busy"
    /\ steady_clock >= sleeper.wake
    /\ sleeper' = [sleeper EXCEPT !.at = "done", !.t2 = steady_now(_steady_count).val]
    /\ task' = IF sleeper.ctx = Designated THEN Idle ELSE task
    /\ UNCHANGED <<utilities, clocks, _system_count, _steady_count, st, _timer, seen, _base, _ref,
                   ref_made, cal, generic>>

\* ------------------------------------------------ lowres_clocks.hh variant
\* BaseClock::now() of each instantiation, in its native unit (ns).
BaseClock_now(k) == IF k = "steady" THEN steady_clock ELSE system_clock

\* An update() that reads the steady clock whatever its BaseClock is.
clock_impl_update_count_steady_only(k) == steady_clock

\* update(): auto const count = BaseClock::now().time_since_epoch().count():
\* the clock's native count, not converted.
clock_impl_update_count(k) == BaseClock_now(k)

\* clock_impl::now<TimePoint>(): _now.load(relaxed), then
\* duration_cast<TimePoint::duration>(BaseClock::duration(n)): the conversion
\* to milliseconds happens at the read.
clock_impl_now(cell) ==
    [failed |-> FALSE, val |-> cell.count \div NsPerMs, src |-> cell.clock]

clock_impl_idle == clock_impl_task.at = "idle"

\* clock_impl(): entry; the first statement is update(). lowres_clock and
\* lowres_system_clock each hold one clock_impl member, _impl.
clock_impl_ctor(k) ==
    /\ clock_impl_idle
    /\ ~clock_impl_timer[k].callback
    /\ clock_impl_task' = [clock_impl_task EXCEPT !.at = "read", !.who = k, !.via = "ctor",
                                                 !.runs = @ + 1]
    /\ UNCHANGED <<utilities, clocks, refresher, cal, sleeper, _now, clock_impl_timer>>

\* update(): auto const count = BaseClock::now().time_since_epoch().count()
clock_impl_update_read ==
    /\ clock_impl_task.at = "read"
    /\ clock_impl_task' =
          [clock_impl_task EXCEPT
              !.at = "store",
              !.count = [count |-> clock_impl_update_count(clock_impl_task.who),
                         clock |-> clock_impl_task.who, at |-> steady_clock,
                         by |-> clock_impl_task.via, run |-> clock_impl_task.runs]]
    /\ UNCHANGED <<utilities, clocks, refresher, cal, sleeper, _now, clock_impl_timer>>

\* update(): _now.store(count, std::memory_order_relaxed); return.
clock_impl_update_store ==
    /\ clock_impl_task.at = "store"
    /\ _now' = [_now EXCEPT ![clock_impl_task.who] = clock_impl_task.count]
    /\ clock_impl_task' =
          IF clock_impl_task.via = "ctor"
          THEN [clock_impl_task EXCEPT !.at = "arm"]
          ELSE [NoUpdate EXCEPT !.runs = clock_impl_task.runs]
    /\ UNCHANGED <<utilities, clocks, refresher, cal, sleeper, clock_impl_timer>>

\* clock_impl(): _timer.set_callback(&clock_impl::update);
\*               _timer.arm_periodic(_granularity); the constructor returns.
clock_impl_arm_periodic ==
    /\ clock_impl_task.at = "arm"
    /\ clock_impl_timer' =
          [clock_impl_timer EXCEPT
              ![clock_impl_task.who] =
                  timer_arm_periodic([clock_impl_timer[clock_impl_task.who] EXCEPT !.callback = TRUE],
                                     steady_clock, _granularity)]
    /\ clock_impl_task' = [NoUpdate EXCEPT !.runs = clock_impl_task.runs]
    /\ UNCHANGED <<utilities, clocks, refresher, cal, sleeper, _now>>

\* The periodic timer of the clock_impl object for clock k expires: CPU0's
\* reactor re-arms it one period from now and runs update() of that object.
clock_impl_timer_expired(k) ==
    /\ clock_impl_idle
    /\ clock_impl_timer[k].armed
    /\ clock_impl_timer[k].callback
    /\ steady_clock >= clock_impl_timer[k].expiry
    /\ clock_impl_timer' =
          [clock_impl_timer EXCEPT ![k] = timer_arm_periodic(clock_impl_timer[k], steady_clock,
                                                             _granularity)]
    /\ clock_impl_task' = [clock_impl_task EXCEPT !.at = "read", !.who = k, !.via = "timer",
                                                 !.runs = @ + 1]
    /\ UNCHANGED <<utilities, clocks, refresher, cal, sleeper, _now>>

\* ------------------------------------------------------ calendar conversion
\* std::chrono::duration_cast to a period n times coarser: integer division of
\* the count, which in C++ truncates toward zero.
duration_cast_coarser(count, n) ==
    IF count >= 0 THEN count \div n ELSE 0 - ((0 - count) \div n)

\* A to_time_t that rounds to the nearest second.
to_time_t_rounds(t) == duration_cast_coarser(t + MsPerSec \div 2, MsPerSec)

\* lowres_system_clock::to_time_t(t):
\*   duration_cast<std::chrono::seconds>(t.time_since_epoch()).count()
to_time_t(t) == duration_cast_coarser(t, MsPerSec)

\* std::chrono::system_clock::to_time_t of a reading in nanoseconds.
system_clock_to_time_t(ns) == duration_cast_coarser(ns, MsPerSec * NsPerMs)

RepMin == 0 - 2 ^ (RepBits - 1)

RepMax == 2 ^ (RepBits - 1) - 1

Rep == RepMin .. RepMax

\* The value a two's-complement rep holds after an arithmetic result x.
Wrap(x) == ((x - RepMin) % (2 ^ RepBits)) + RepMin

\* std::chrono::duration_cast to a period n times finer: the count times n, in
\* the rep. A product outside the rep is a signed overflow, undefined: the
\* wrapped product or, from a build that saturates or folds, an end of the rep.
duration_cast_finer(count, n) ==
    IF count * n \in Rep THEN {count * n} ELSE {Wrap(count * n), RepMin, RepMax}

\* A from_time_t that adds the sub-second part of the cached wall time.
from_time_t_reads_cell(s) ==
    {r + (system_now(_system_count).val % MsPerSec) : r \in duration_cast_finer(s, MsPerSec)}

\* lowres_system_clock::from_time_t(t):
\*   time_point(duration_cast<duration>(std::chrono::seconds(t)))
from_time_t(s) == duration_cast_finer(s, MsPerSec)

\* The time points converted: whole seconds, one millisecond and 999
\* milliseconds to either side of them, and the ends of the rep.
TimePoints ==
    {sec * MsPerSec + ms : sec \in (0 - MaxCalendarSec) .. MaxCalendarSec,
                           ms \in {0 - 999, 0 - 1, 0, 1, 999}}
        \cup {RepMin, RepMax}

\* The calendar seconds converted: around the epoch, the last whose
\* millisecond count the rep holds, the first it does not hold, and the ends
\* of std::time_t.
CalendarSeconds ==
    ((0 - MaxCalendarSec) .. MaxCalendarSec)
        \cup {RepMax \div MsPerSec, RepMax \div MsPerSec + 1,
              0 - (RepMax \div MsPerSec), 0 - (RepMax \div MsPerSec) - 1, RepMin, RepMax}

\* A caller converts a time point to calendar seconds.
call_to_time_t(t) ==
    /\ cal' = [op |-> "to_time_t", arg |-> t, res |-> to_time_t(t)]
    /\ UNCHANGED <<utilities, clocks, refresher, generic, sleeper>>

\* A caller converts calendar seconds to a time point.
call_from_time_t(s) ==
    /\ \E r \in from_time_t(s) : cal' = [op |-> "from_time_t", arg |-> s, res |-> r]
    /\ UNCHANGED <<utilities, clocks, refresher, generic, sleeper>>

\* A caller converts a time point to calendar seconds and back.
call_round_trip(t) ==
    /\ \E r \in from_time_t(to_time_t(t)) : cal' = [op |-> "round_trip", arg |-> t, res |-> r]
    /\ UNCHANGED <<utilities, clocks, refresher, generic, sleeper>>

\* --------------------------------------------------------- util/log-cli.hh
\* The names of seastar::log_level that the level parser knows ("Valid values
\* are trace, debug, info, warn, error").
log_level == {"trace", "debug", "info", "warn", "error"}

\* A level parser that takes an unknown name for info.
log_level_from_string_lenient(s) ==
    [thrown |-> "none", level |-> IF Len(s) = 1 /\ s[1] \in log_level THEN s[1] ELSE "info"]

\* log_level_from_string(s): boost::lexical_cast<log_level>(s), with
\* bad_lexical_cast turned into std::runtime_error("Unknown log level").
log_level_from_string(s) ==
    IF Len(s) = 1 /\ s[1] \in log_level
    THEN [thrown |-> "none", level |-> s[1]]
    ELSE [thrown |-> "runtime_error", level |-> "none"]

\* std::sregex_token_iterator s(v.begin(), v.end(), colon, -1), iterated to the
\* end: the pieces of v before each ':' (empty ones included), then what
\* follows the last ':' unless that is empty; the whole of v, empty or not,
\* when v holds no ':'. cur is the piece being read, matched whether a ':'
\* has been passed.
RECURSIVE sregex_token_iterator(_, _, _)
sregex_token_iterator(v, cur, matched) ==
    IF v = Empty
    THEN IF matched /\ cur = Empty THEN << >> ELSE <<cur>>
    ELSE IF Head(v) = ":"
         THEN <<cur>> \o sregex_token_iterator(Tail(v), Empty, TRUE)
         ELSE sregex_token_iterator(Tail(v), Append(cur, Head(v)), matched)

\* p.find('='), counted from 1: 0 stands for sstring::npos.
RECURSIVE find(_, _, _)
find(p, ch, i) ==
    IF i > Len(p) THEN 0 ELSE IF p[i] = ch THEN i ELSE find(p, ch, i + 1)

\* An association that does not replace one already held for the logger.
assign_keeps_first(lv, k, v) ==
    [x \in DOMAIN lv \cup {k} |-> IF x \in DOMAIN lv THEN lv[x] ELSE v]

\* lv[std::move(k)] = std::move(v)
assign(lv, k, v) == [x \in DOMAIN lv \cup {k} |-> IF x = k THEN v ELSE lv[x]]

\* An entry without '=' taken as the name of a logger with an empty level.
entry_without_equals_kept(p, lv) == [thrown |-> "none", lv |-> assign(lv, p, Empty)]

\* if (i == sstring::npos) throw bpo::invalid_option_value(p)
entry_without_equals(p, lv) == [thrown |-> "invalid_option_value", lv |-> lv]

\* The loop of parse_level_assignments over the tokens ts.
RECURSIVE parse_entries(_, _)
parse_entries(ts, lv) ==
    IF ts = << >>
    THEN [thrown |-> "none", lv |-> lv]
    ELSE LET p == Head(ts)
             i == find(p, "=", 1)
         IN  IF i = 0
             THEN entry_without_equals(p, lv)
             ELSE parse_entries(Tail(ts), assign(lv, SubSeq(p, 1, i - 1),
                                                 SubSeq(p, i + 1, Len(p))))

\* parse_level_assignments(v, lv)
parse_level_assignments(v, lv) == parse_entries(sregex_token_iterator(v, Empty, FALSE), lv)

\* validate(out, in, logger_levels*, int): an empty out becomes an empty map,
\* then every string of in is parsed into it.
RECURSIVE validate(_, _)
validate(out, in) ==
    IF in = << >>
    THEN [thrown |-> "none", lv |-> out]
    ELSE LET r == parse_level_assignments(Head(in), out)
         IN  IF r.thrown # "none" THEN r ELSE validate(r.lv, Tail(in))

\* bpo::store over the occurrences of --logger-log-level, in command-line
\* order: each occurrence is validated into the value the option has so far.
RECURSIVE store(_, _)
store(occurrences, out) ==
    IF occurrences = << >>
    THEN [thrown |-> "none", lv |-> out]
    ELSE LET r == validate(out, <<Head(occurrences)>>)
         IN  IF r.thrown # "none" THEN r ELSE store(Tail(occurrences), r.lv)

\* A set_all_loggers_level that changes no logger.
set_all_loggers_level_skipped(registry, level) == registry

\* log_registry::set_all_loggers_level(level)
set_all_loggers_level(registry, level) == [n \in DOMAIN registry |-> level]

\* The loop of configure over the associations, taken in the order given:
\* set_logger_level(pair.first, log_level_from_string(pair.second)), where an
\* unknown level and an unregistered logger (std::out_of_range) both end the
\* loop with std::runtime_error.
RECURSIVE set_logger_levels(_, _, _)
set_logger_levels(order, lv, registry) ==
    IF order = << >>
    THEN [thrown |-> "none", registry |-> registry]
    ELSE LET name  == Head(order)
             level == log_level_from_string(lv[name])
         IN  IF level.thrown # "none" \/ name \notin DOMAIN registry
             THEN [thrown |-> "runtime_error", registry |-> registry]
             ELSE set_logger_levels(Tail(order), lv,
                                    [registry EXCEPT ![name] = level.level])

\* A configure that undoes what it did when an association fails.
configure_atomic(args, lv, order) ==
    LET level == log_level_from_string(args.default_log_level)
    IN  IF level.thrown # "none"
        THEN [thrown |-> "runtime_error", registry |-> global_log_registry,
              outputs |-> logger_outputs]
        ELSE LET r == set_logger_levels(order, lv,
                                        set_all_loggers_level(global_log_registry, level.level))
             IN  IF r.thrown # "none"
                 THEN [thrown |-> "runtime_error", registry |-> global_log_registry,
                       outputs |-> logger_outputs]
                 ELSE [thrown |-> "none", registry |-> r.registry,
                       outputs |-> [stdout |-> args.log_to_stdout,
                                    syslog |-> args.log_to_syslog]]

\* configure(vars), with the associations iterated in the given order.
configure(args, lv, order) ==
    LET level == log_level_from_string(args.default_log_level)
    IN  IF level.thrown # "none"
        THEN [thrown |-> "runtime_error", registry |-> global_log_registry,
              outputs |-> logger_outputs]
        ELSE LET r == set_logger_levels(order, lv,
                                        set_all_loggers_level(global_log_registry, level.level))
             IN  IF r.thrown # "none"
                 THEN [thrown |-> "runtime_error", registry |-> r.registry,
                       outputs |-> logger_outputs]
                 ELSE [thrown |-> "none", registry |-> r.registry,
                       outputs |-> [stdout |-> args.log_to_stdout,
                                    syslog |-> args.log_to_syslog]]

\* The orders in which a range-for over the std::unordered_map may visit the
\* keys: any.
RECURSIVE orders(_)
orders(keys) ==
    IF keys = {} THEN {<< >>}
    ELSE UNION {{<<k>> \o o : o \in orders(keys \ {k})} : k \in keys}

iteration_orders(lv) == orders(DOMAIN lv)

\* parse_and_configure(args) of the test: parse_command_line and store, which
\* throw on a malformed value before anything is configured; then configure.
parse_and_configure(args) ==
    \E parsed \in {store(args.logger_log_level, logger_levels)} :
        IF parsed.thrown # "none"
        THEN /\ cli' = [called |-> TRUE, args |-> args, thrown |-> parsed.thrown,
                        lv |-> parsed.lv]
             /\ UNCHANGED <<global_log_registry, logger_outputs>>
        ELSE \E order \in iteration_orders(parsed.lv) :
                \E done \in {configure(args, parsed.lv, order)} :
                    /\ cli' = [called |-> TRUE, args |-> args, thrown |-> done.thrown,
                                lv |-> parsed.lv]
                    /\ global_log_registry' = done.registry
                    /\ logger_outputs' = done.outputs

\* The loggers of the tests, in the order of their declarations.
LoggerNames == <<(<<"log1">>), (<<"log2">>), (<<"log3">>)>>

\* logger(name): registers the logger, at level info. The loggers are local
\* objects of one scope: constructed in the order of their declarations.
logger_ctor(i) ==
    /\ LoggerNames[i] \notin DOMAIN global_log_registry
    /\ \A j \in 1 .. i - 1 : LoggerNames[j] \in DOMAIN global_log_registry
    /\ LET name == LoggerNames[i] IN
       global_log_registry' =
          [n \in DOMAIN global_log_registry \cup {name} |->
              IF n = name THEN "info" ELSE global_log_registry[n]]
    /\ UNCHANGED <<clocks, refresher, cal, generic, sleeper, logger_outputs, cli, generated,
                   compared>>

\* ~logger(): unregisters the logger. Local objects are destroyed in the
\* reverse order of their construction.
logger_dtor(i) ==
    /\ LoggerNames[i] \in DOMAIN global_log_registry
    /\ \A j \in i + 1 .. Len(LoggerNames) : LoggerNames[j] \notin DOMAIN global_log_registry
    /\ global_log_registry' =
          [n \in DOMAIN global_log_registry \ {LoggerNames[i]} |-> global_log_registry[n]]
    /\ UNCHANGED <<clocks, refresher, cal, generic, sleeper, logger_outputs, cli, generated,
                   compared>>

\* The values given to --logger-log-level: those of the test, one with an
\* unknown level, one that names a logger twice.
LevelAssignments ==
    { <<"log1", "=", "debug", ":", "log3", "=", "debug">>,
      <<"log2", "=", "warn", ":", "log1", "=", "error">>,
      <<"log1", ":">>,
      <<"log1", "=", "foo">>,
      <<"log2", "=", "error", ":", "log2", "=", "warn">> }

\* The command lines: --default-log-level absent (its default is info),
\* debug or foo; --logger-log-level absent, given once or given twice;
\* --log-to-stdout false.
CommandLines ==
    { [default_log_level |-> d, logger_log_level |-> o, log_to_stdout |-> b,
       log_to_syslog |-> FALSE] :
        d \in {<<"info">>, <<"debug">>, <<"foo">>},
        o \in {<< >>} \cup {<<v>> : v \in LevelAssignments}
                     \cup {<<v, w>> : v, w \in LevelAssignments},
        b \in {FALSE} }

\* The pieces the values parsed are made of.
Pieces == {"log1", "debug", "=", ":"}

\* Every value of at most MaxLen pieces, and an association followed by ':'.
Values ==
    UNION {[1 .. n -> Pieces] : n \in 0 .. MaxLen} \cup {<<"log1", "=", "debug", ":">>}

\* The command lines with one --logger-log-level and nothing else.
OneValueCommandLines ==
    { [default_log_level |-> <<"info">>, logger_log_level |-> <<v>>, log_to_stdout |-> TRUE,
       log_to_syslog |-> FALSE] : v \in Values }

\* A caller runs parse_and_configure with a command line.
call_parse_and_configure(args) ==
    /\ parse_and_configure(args)
    /\ UNCHANGED <<clocks, refresher, cal, generic, sleeper, generated, compared>>

\* ------------------------------------- the variants of the cached clock
\* The first lowres_clock_impl of lowres_clock.hh and clock_impl of
\* lowres_clocks.hh store the precise clock's native count,
\* time_since_epoch().count(), where the second lowres_clock_impl stores
\* now_count(): given the same reading, their cell holds the reading's raw
\* count where the second one's holds the reading's count.
native_count(cell) == [count |-> cell.raw, clock |-> cell.clock]

\* A conversion at the read that rounds to the nearest millisecond.
convert_count_rounds(count) == duration_cast_coarser(count + NsPerMs \div 2, NsPerMs)

\* convert_count_to_time_point<TimePoint, BaseClock>(count):
\*   TimePoint(duration_cast<TimePoint::duration>(BaseClock::duration(count)))
convert_count_to_time_point(count) == duration_cast_coarser(count, NsPerMs)

\* steady_now() and system_now() of the first lowres_clock_impl:
\*   convert_count_to_time_point<TimePoint, steady_clock>(_steady_count.load(relaxed))
native_now(cell) ==
    [failed |-> FALSE, val |-> convert_count_to_time_point(native_count(cell).count),
     src |-> cell.clock]

\* The cell of clock k in the second lowres_clock_impl.
cell_of(k) == IF k = "steady" THEN _steady_count ELSE _system_count

\* now() of clock k called on the three variants, run side by side on the
\* same readings, at the same moment.
now_side_by_side(k, c) ==
    /\ may_call(c)
    /\ compared' =
          [clock |-> k, ctx |-> c,
           ms |-> (IF k = "steady" THEN steady_now(cell_of(k)) ELSE system_now(cell_of(k))).val,
           native |-> native_now(cell_of(k)).val,
           generic |-> clock_impl_now(native_count(cell_of(k))).val]
    /\ UNCHANGED <<clocks, refresher, cal, generic, sleeper, logging, generated>>

\* ------------------------------------------------------ util/tuple_utils.hh
\* The functions given to the generators: the lambdas of the tests, x * x and
\* (2 * e) + 1, and one with a state, which adds to x ten times the number of
\* calls made to it before.
Functions == {"square", "odd", "counting"}

\* f(x), as its n-th call counted from 0.
call(f, x, n) ==
    CASE f = "square" -> x * x
      [] f = "odd" -> (2 * x) + 1
      [] f = "counting" -> x + 10 * n

\* std::make_tuple(f(Is)...) evaluated: the arguments of a function call, in
\* an order the compiler picks, here from the last to the first.
RECURSIVE make_tuple(_, _, _)
make_tuple(Is, f, calls) ==
    IF Is = << >>
    THEN [result |-> << >>, calls |-> calls]
    ELSE LET rest == make_tuple(Tail(Is), f, calls)
         IN  [result |-> <<call(f, Head(Is), Len(rest.calls))>> \o rest.result,
              calls |-> Append(rest.calls, Head(Is))]

\* result_type{f(Is)...}: the initializers of a braced list are evaluated in
\* the order they are written. calls holds the arguments of the calls made.
RECURSIVE braced_init(_, _, _)
braced_init(Is, f, calls) ==
    IF Is = << >>
    THEN [result |-> << >>, calls |-> calls]
    ELSE LET rest == braced_init(Tail(Is), f, Append(calls, Head(Is)))
         IN  [result |-> <<call(f, Head(Is), Len(calls))>> \o rest.result,
              calls |-> rest.calls]

\* A generator that returns std::make_tuple(f(Is)...).
tuple_generate_by_make_tuple(Is, f) == make_tuple(Is, f, << >>)

\* tuple_generate_from_integers(std::integer_sequence<N, Is...>, f):
\*   using result_type = decltype(std::make_tuple(f(Is)...));  (not evaluated)
\*   return result_type{f(Is)...};
tuple_generate_from_integers(Is, f) == braced_init(Is, f, << >>)

\* tuple_generate_from_indices(std::index_sequence<Is...> s, f):
\*   return tuple_generate_from_integers<size_t>(std::move(s), std::forward<Function>(f))
tuple_generate_from_indices(Is, f) == tuple_generate_from_integers(Is, f)

\* std::integer_sequence<int, Is...>: short sequences, negative integers and
\* repetitions included, and std::make_integer_sequence<int, 5> of the test.
IntegerSequences ==
    UNION {[1 .. n -> (0 - 1) .. 2] : n \in 0 .. MaxIs} \cup {<<0, 1, 2, 3, 4>>}

\* std::index_sequence<Is...>: the same over size_t.
IndexSequences ==
    UNION {[1 .. n -> 0 .. 2] : n \in 0 .. MaxIs} \cup {<<0, 1, 2, 3, 4>>}

\* A caller generates a tuple from an integer sequence.
call_tuple_generate_from_integers(Is, f) ==
    /\ \E r \in {tuple_generate_from_integers(Is, f)} :
          generated' = [by |-> "integers", Is |-> Is, f |-> f, result |-> r.result,
                        calls |-> r.calls]
    /\ UNCHANGED <<clocks, refresher, cal, generic, sleeper, logging, compared>>

\* A caller generates a tuple from an index sequence.
call_tuple_generate_from_indices(Is, f) ==
    /\ \E r \in {tuple_generate_from_indices(Is, f)} :
          generated' = [by |-> "indices", Is |-> Is, f |-> f, result |-> r.result,
                        calls |-> r.calls]
    /\ UNCHANGED <<clocks, refresher, cal, generic, sleeper, logging, compared>>

\* ------------------------------------------------------------------ system
\* The refresher on CPU0, the precise clocks and the lowres_system_clock.hh
\* variant's constructor.
Next ==
    \/ Tick
    \/ \E d \in Adjustments : AdjustSystemClock(d)
    \/ \E i \in Instances : lowres_clock_impl_ctor(i)
    \/ update_read_system
    \/ update_read_steady
    \/ update_store_system
    \/ update_store_steady
    \/ ctor_arm_periodic
    \/ \E i \in Instances : timer_expired(i)
    \/ \E i \in Instances : lowres_clock_impl_dtor(i)
    \/ lowres_system_clock_ctor

Spec == Init /\ [][Next]_vars

\* The refresher on CPU0 together with the readers: now() calls from CPU0
\* (between its tasks) and from another CPU (at any point of update()).
NextCalls ==
    \/ Tick
    \/ \E i \in Instances : lowres_clock_impl_ctor(i)
    \/ update_read_system
    \/ update_read_steady
    \/ update_store_system
    \/ update_store_steady
    \/ ctor_arm_periodic
    \/ \E i \in Instances : timer_expired(i)
    \/ \E i \in Instances : lowres_clock_impl_dtor(i)
    \/ \E c \in Contexts : lowres_clock_now(c)
    \/ \E c \in Contexts : lowres_system_clock_now(c)

SpecCalls == Init /\ [][NextCalls]_vars

\* The calendar conversions, called at any moment while time passes and the
\* first refresher object is constructed.
NextCalendar ==
    \/ Tick
    \/ lowres_clock_impl_ctor(1)
    \/ update_read_system
    \/ update_read_steady
    \/ update_store_system
    \/ update_store_steady
    \/ ctor_arm_periodic
    \/ \E t \in TimePoints : call_to_time_t(t)
    \/ \E s \in CalendarSeconds : call_from_time_t(s)
    \/ \E t \in TimePoints : call_round_trip(t)

SpecCalendar == Init /\ [][NextCalendar]_vars

\* lowres_clocks.hh: one clock_impl object per clock, each with its own timer.
NextClocks ==
    \/ Tick
    \/ \E k \in BaseClocks : clock_impl_ctor(k)
    \/ clock_impl_update_read
    \/ clock_impl_update_store
    \/ clock_impl_arm_periodic
    \/ \E k \in BaseClocks : clock_impl_timer_expired(k)

SpecClocks == Init /\ [][NextClocks]_vars

\* The test cases of part_000 that sleep on CPU0's reactor while the first
\* refresher object is alive and its timer is served, on time or late.
NextSleep ==
    \/ Tick
    \/ SleepTick
    \/ lowres_clock_impl_ctor(1)
    \/ update_read_system
    \/ update_read_steady
    \/ update_store_system
    \/ update_store_steady
    \/ ctor_arm_periodic
    \/ timer_expired(1)
    \/ steady_clock_sanity
    \/ steady_clock_sanity_then
    \/ system_clock_dynamic
    \/ system_clock_dynamic_then

SpecSleep == Init /\ [][NextSleep]_vars

\* The two scenarios, run while the first refresher object is alive and CPU0
\* serves its timer within MaxLateTicks quanta of each expiry.
NextScenario ==
    \/ ScenarioTick
    \/ lowres_clock_impl_ctor(1)
    \/ update_read_system
    \/ update_read_steady
    \/ update_store_system
    \/ update_store_steady
    \/ ctor_arm_periodic
    \/ timer_expired(1)
    \/ wall_clock_scenario
    \/ wall_clock_scenario_sleep
    \/ wall_clock_scenario_then
    \/ \E c \in Contexts : busy_wait_scenario(c)
    \/ busy_wait_scenario_then

SpecScenario == Init /\ [][NextScenario]_vars

\* The logging options: loggers come and go, command lines are parsed and
\* applied.
NextLogCli ==
    \/ \E i \in DOMAIN LoggerNames : logger_ctor(i)
    \/ \E i \in DOMAIN LoggerNames : logger_dtor(i)
    \/ \E args \in CommandLines : call_parse_and_configure(args)

SpecLogCli == Init /\ [][NextLogCli]_vars

\* One logger and every short value of --logger-log-level.
NextLogParse ==
    \/ logger_ctor(1)
    \/ logger_dtor(1)
    \/ \E args \in OneValueCommandLines : call_parse_and_configure(args)

SpecLogParse == Init /\ [][NextLogParse]_vars

\* The variants of the cached clock side by side: the refresher of the first
\* object, corrections of the wall clock and now() calls from every context.
NextVariants ==
    \/ Tick
    \/ \E d \in Adjustments : AdjustSystemClock(d)
    \/ lowres_clock_impl_ctor(1)
    \/ update_read_system
    \/ update_read_steady
    \/ update_store_system
    \/ update_store_steady
    \/ ctor_arm_periodic
    \/ timer_expired(1)
    \/ \E k \in BaseClocks, c \in Contexts : now_side_by_side(k, c)

SpecVariants == Init /\ [][NextVariants]_vars

\* The tuple generators, called with every sequence and function.
NextTuple ==
    \/ \E Is \in IntegerSequences, f \in Functions : call_tuple_generate_from_integers(Is, f)
    \/ \E Is \in IndexSequences, f \in Functions : call_tuple_generate_from_indices(Is, f)

SpecTuple == Init /\ [][NextTuple]_vars

\* ------------------------------------------------------------------ claims
\* C1: the constructor refreshes both cells before it arms the timer and
\* before it returns, so once a construction has returned both cells hold a
\* reading of their own precise clock and every now() call made from then on
\* returns such a reading, never the zero a cell starts with.
C1_InitializationOrdering ==
    /\ \A i \in Instances :
          st[i] \in {"Active", "TornDown"} =>
              /\ steady_now(_steady_count).src = "steady"
              /\ system_now(_system_count).src = "system"
              /\ steady_now(_steady_count).val = now_count(_steady_count.raw)
              /\ system_now(_system_count).val = now_count(_system_count.raw)
              /\ steady_now(_steady_count).val # 0
              /\ system_now(_system_count).val # 0
    /\ \A i \in Instances : _timer[i].armed => st[i] = "Active"
    /\ task.at = "arm" =>
          /\ _steady_count = task.steady_count
          /\ _system_count = task.system_count
    /\ seen.phase \in {"Active", "TornDown"} =>
          /\ ~seen.failed
          /\ seen.clock = "steady" => seen.val >= now_count(SteadyStart)
          /\ seen.clock = "system" => seen.val >= now_count(SystemStart)

\* The very first now() after the construction returned, before any time passed.
C1_Witness ==
    /\ seen.clock = "steady"
    /\ seen.phase = "Active"
    /\ ticks = 0
    /\ seen.val = now_count(SteadyStart)

\* C2: a store to the steady cell never lowers its count, and a
\* lowres_clock::now() call never returns less than the lowres_clock::now()
\* call before it, on whatever CPUs the two calls run.
C2_SteadyMonotonic ==
    [][/\ _steady_count'.count >= _steady_count.count
       /\ \A c \in Contexts :
             (lowres_clock_now(c) /\ seen.clock = "steady") => seen'.val >= seen.val]_vars

\* A lowres_clock::now() call that returned a later reading than the first
\* one, with another refresh stored after it.
C2_Witness ==
    /\ seen.clock = "steady"
    /\ seen.val > now_count(SteadyStart)
    /\ seen.dirty

\* The steady cell holds a reading that std::chrono::steady_clock produced
\* when an update() read it, converted to milliseconds, and steady_now
\* returns exactly that count.
SteadyCellIsReading ==
    _steady_count.clock # "none" =>
        /\ _steady_count.clock = "steady"
        /\ _steady_count.raw = _steady_count.at
        /\ \E k \in 0 .. ticks : _steady_count.raw = SteadyStart + k * Quantum
        /\ _steady_count.count = now_count(_steady_count.raw)
        /\ steady_now(_steady_count) =
              [failed |-> FALSE, val |-> _steady_count.count, src |-> "steady"]

\* The same for the system cell and std::chrono::system_clock.
SystemCellIsReading ==
    _system_count.clock # "none" =>
        /\ _system_count.clock = "system"
        /\ \E k \in 0 .. ticks : \E a \in AdjustTotals :
              /\ _system_count.at = SteadyStart + k * Quantum
              /\ _system_count.raw = SystemStart + k * Quantum + a
        /\ _system_count.count = now_count(_system_count.raw)
        /\ system_now(_system_count) =
              [failed |-> FALSE, val |-> _system_count.count, src |-> "system"]

Writers ==
    {i \in Instances :
        \/ st[i] \in {"Active", "TornDown"}
        \/ task.who = i /\ task.at \in {"store_steady", "arm"}}

\* A cell changes only in a store of update(), which CPU0 executes.
WritesOnlyByUpdate ==
    [][<<_system_count, _steady_count>>' # <<_system_count, _steady_count>> =>
          \/ update_store_system
          \/ update_store_steady]_vars

\* now() leaves the cells and the refresher as they are, on every CPU.
NowWritesNothing ==
    [][\A c \in Contexts :
          (lowres_clock_now(c) \/ lowres_system_clock_now(c)) =>
              UNCHANGED <<_system_count, _steady_count, st, _timer, task>>]_vars

\* C4: the cells are written only by update() on CPU0, by one refresher
\* object and never by two, and now() on any CPU changes neither the cells
\* nor the refresher.
C4_SingleWriter ==
    [][/\ <<_system_count, _steady_count>>' # <<_system_count, _steady_count>> =>
             \/ update_store_system
             \/ update_store_steady
       /\ \A c \in Contexts :
             (lowres_clock_now(c) \/ lowres_system_clock_now(c)) =>
                 UNCHANGED <<_system_count, _steady_count, st, _timer, task>>
       /\ Cardinality(Writers') <= 1]_vars

\* C5: a now() call that follows a call to the same clock with no store to
\* that clock's cell in between returns the same value, whether the two calls
\* come from one CPU or from two.
C5_Quantization ==
    [][\A c \in Contexts :
          /\ (lowres_clock_now(c) /\ seen.clock = "steady" /\ ~seen.dirty) =>
                seen'.val = seen.val
          /\ (lowres_system_clock_now(c) /\ seen.clock = "system" /\ ~seen.dirty) =>
                seen'.val = seen.val]_vars

\* Two calls from different CPUs with no store in between, made after a refresh
\* and after time has passed since it.
C5_Witness ==
    /\ seen.clock = "steady"
    /\ seen.prior \notin {"none", seen.ctx}
    /\ seen.val > 0
    /\ ~seen.dirty
    /\ steady_clock > _steady_count.raw

\* C8 as stated: a now() call made while the refresher is Uninitialized or
\* Torn-down fails fast.
C8_FailsFast ==
    [][\A c \in Contexts :
          ((lowres_clock_now(c) \/ lowres_system_clock_now(c))
             /\ Phase \in {"Uninitialized", "TornDown"}) => seen'.failed]_vars

\* C8 amended: a now() call made while the refresher is Uninitialized or
\* Torn-down returns normally with the cell's content: zero before the first
\* refresh, the last stored reading after teardown.
C8_ReturnsCellContent ==
    [][\A c \in Contexts :
          /\ (lowres_clock_now(c) /\ Phase = "Uninitialized") =>
                ~seen'.failed /\ seen'.val = 0
          /\ (lowres_system_clock_now(c) /\ Phase = "Uninitialized") =>
                ~seen'.failed /\ seen'.val = 0
          /\ (lowres_clock_now(c) /\ Phase = "TornDown") =>
                /\ ~seen'.failed
                /\ _steady_count.clock = "steady"
                /\ seen'.val = _steady_count.count
          /\ (lowres_system_clock_now(c) /\ Phase = "TornDown") =>
                /\ ~seen'.failed
                /\ _system_count.clock = "system"
                /\ seen'.val = _system_count.count]_vars

\* A lowres_clock::now() made after teardown, returning the last stored count
\* long after it was read.
C8_Witness ==
    /\ seen.clock = "steady"
    /\ seen.phase = "TornDown"
    /\ ~seen.failed
    /\ seen.val = _steady_count.count
    /\ seen.val > 0
    /\ steady_clock >= _steady_count.raw + _granularity

\* How far the cached steady time is behind the precise one, in ns.
SteadyLag == steady_clock - steady_now(_steady_count).val * NsPerMs

\* How long ago the reading held by the steady cell was taken, in ns.
SteadyAge == steady_clock - _steady_count.at

\* C6 as stated: while the refresher is Active the cached steady time differs
\* from the precise steady time by less than the refresh period plus 1 ms.
C6_BoundedSkew ==
    Phase = "Active" =>
        /\ SteadyLag < _granularity + NsPerMs
        /\ 0 - SteadyLag < _granularity + NsPerMs

\* C6 amended: while the refresher is Active the cached steady time is never
\* ahead of the precise one and is behind it by less than the age of the
\* reading it holds plus 1 ms; that is less than the refresh period plus 1 ms
\* only while the reading is younger than one period, which a late timer
\* callback does not keep.
C6_SkewBoundedByAge ==
    Phase = "Active" =>
        /\ SteadyLag >= 0
        /\ SteadyLag < SteadyAge + NsPerMs
        /\ SteadyAge < _granularity => SteadyLag < _granularity + NsPerMs

\* The reading is one quantum old and the truncation adds to the lag.
C6_Witness ==
    /\ Phase = "Active"
    /\ SteadyAge = Quantum
    /\ SteadyLag > SteadyAge

\* C7: a second construction while a refresher exists fails without running
\* update() and without arming a timer, so no object is under construction or
\* alive beside an Active one and at most one timer is armed.
C7_SecondConstructionFails ==
    /\ \A i, j \in Instances :
          (i # j /\ st[j] = "Active") => st[i] \notin {"Constructing", "Active"}
    /\ Cardinality({i \in Instances : _timer[i].armed}) <= 1

\* C9: each lowres_clock_impl object only moves Uninitialized -> Constructing
\* (the constructor is entered) -> Active (update() has stored both cells and
\* the timer is armed) -> Torn-down (the timer is disarmed), never backwards,
\* and its timer is armed exactly while it is Active.
C9_Lifecycle ==
    [][\A i \in Instances :
          /\ st'[i] # st[i] =>
                <<st[i], st'[i]>> \in {<<"Uninitialized", "Constructing">>,
                                       <<"Constructing", "Active">>,
                                       <<"Active", "TornDown">>}
          /\ (st[i] = "Constructing" /\ st'[i] = "Active") =>
                /\ ctor_arm_periodic
                /\ _steady_count = task.steady_count
                /\ _system_count = task.system_count
                /\ _steady_count.clock = "steady"
                /\ _system_count.clock = "system"
          /\ _timer[i].armed <=> st[i] = "Active"
          /\ _timer'[i].armed <=> st'[i] = "Active"]_vars

\* An object torn down with its timer disarmed, after its timer had fired.
C9_Witness ==
    /\ st[1] = "TornDown"
    /\ ~_timer[1].armed
    /\ _steady_count.at > SteadyStart

\* The positions of update() and the position that follows each.
UpdateNext ==
    [read_system |-> "read_steady", read_steady |-> "store_system",
     store_system |-> "store_steady", store_steady |-> "store_steady"]

\* C10: disarming is idempotent and teardown does not race with update(): no
\* callback starts for an object being torn down, an update() in flight is not
\* cut short and goes on to both stores, a torn-down object stays disarmed,
\* and with every object torn down the cells are not written.
C10_TeardownNoRace ==
    [][/\ \A i \in Instances :
             /\ timer_expired(i) => st[i] = "Active" /\ st'[i] = "Active"
             /\ timer_cancel(timer_cancel(_timer[i])) = timer_cancel(_timer[i])
             /\ st[i] = "TornDown" =>
                   /\ timer_cancel(_timer[i]) = _timer[i]
                   /\ ~_timer'[i].armed
                   /\ st'[i] = "TornDown"
       /\ task.at \in DOMAIN UpdateNext =>
             /\ st[task.who] \in {"Constructing", "Active"}
             /\ st'[task.who] = st[task.who]
             /\ \/ task'.at \in {task.at, UpdateNext[task.at]}
                \/ update_store_steady
       /\ Phase = "TornDown" => UNCHANGED <<_system_count, _steady_count>>]_vars

\* Every constructed object torn down after a timer refresh, the cells keeping
\* the last stored readings.
C10_Witness ==
    /\ Phase = "TornDown"
    /\ _steady_count.at > SteadyStart
    /\ steady_clock >= _steady_count.at + _granularity
    /\ \A i \in Instances : ~_timer[i].armed

\* By how much the instant of the held wall reading is later than the instant
\* of the held steady reading, in ns.
ReadGap == _system_count.at - _steady_count.at

\* C13 as stated: whenever both cells can be loaded, the instants at which the
\* two held readings were taken differ by less than the refresh period.
C13_ReadInstantsClose ==
    (_steady_count.clock # "none" /\ _system_count.clock # "none") =>
        /\ ReadGap < _granularity
        /\ 0 - ReadGap < _granularity

\* C13 amended: outside the window between update()'s two stores both cells
\* hold the readings of one update(), the wall clock's taken first, so their
\* instants differ by the time between its two reads; inside that window the
\* wall cell holds the reading of the update() in flight and the steady cell
\* the reading of an earlier one, a refresh interval or more older.
C13_ReadInstantsByWindow ==
    /\ _steady_count.clock # "none" => _system_count.clock # "none"
    /\ (_steady_count.clock # "none" /\ task.at # "store_steady") =>
          /\ ReadGap <= 0
          /\ task.at = "arm" =>
                /\ _system_count = task.system_count
                /\ _steady_count = task.steady_count
    /\ (_steady_count.clock # "none" /\ task.at = "store_steady") =>
          /\ _system_count = task.system_count
          /\ _steady_count.at <= task.system_count.at
          /\ ReadGap >= 0

\* A reader loading both cells between the two stores of a timer refresh finds
\* readings taken a full period apart.
C13_Witness ==
    /\ task.at = "store_steady"
    /\ task.via = "timer"
    /\ _steady_count.clock = "steady"
    /\ ReadGap >= _granularity

\* Both cells were refreshed after the latest correction of the system clock:
\* the held wall reading carries the offset the system clock has now.
RefreshedSinceAdjust ==
    /\ _system_count.clock = "system"
    /\ _steady_count.clock = "steady"
    /\ _steady_count.at >= _system_count.at
    /\ _system_count.raw - _system_count.at = system_clock - steady_clock

\* What the system clock, as corrected, read at instant at of the steady time line.
SystemClockAt(at) == system_clock - (steady_clock - at)

\* lowres_system_clock::now() of lowres_clock.hh returns the corrected reading.
SystemNowMirrorsAdjustment ==
    RefreshedSinceAdjust =>
        system_now(_system_count).val = now_count(SystemClockAt(_system_count.at))

\* C12: once the system clock has been set back and a refresh has run,
\* lowres_system_clock::now() returns the corrected reading, in lowres_clock.hh
\* and in lowres_system_clock.hh alike: never a time the corrected system
\* clock had not reached when the refresh read it.
C12_MirrorsAdjustments ==
    RefreshedSinceAdjust =>
        /\ system_now(_system_count).val = now_count(SystemClockAt(_system_count.at))
        /\ ref_made =>
              lowres_system_clock_now_from_ref(_steady_count).val
                  <= now_count(SystemClockAt(_steady_count.at))

\* C14: a now() call made while the refresher is Active returns normally with
\* the count its cell holds, however long the refresh callback has been
\* overdue, and changes nothing in the refresher: no error state, no failure,
\* no staleness signal.
C14_StaleReadsSucceed ==
    [][\A c \in Contexts :
          /\ (lowres_clock_now(c) /\ Phase = "Active") =>
                /\ ~seen'.failed
                /\ seen'.val = _steady_count.count
                /\ UNCHANGED <<_system_count, _steady_count, st, _timer, task>>
          /\ (lowres_system_clock_now(c) /\ Phase = "Active") =>
                /\ ~seen'.failed
                /\ seen'.val = _system_count.count
                /\ UNCHANGED <<_system_count, _steady_count, st, _timer, task>>]_vars

\* A lowres_clock::now() made while the timer callback was a whole period
\* overdue: it returned the reading stored two periods before.
C14_Witness ==
    /\ seen.clock = "steady"
    /\ seen.phase = "Active"
    /\ seen.starved
    /\ ~seen.failed
    /\ ~seen.dirty
    /\ seen.val = _steady_count.count
    /\ steady_clock - _steady_count.at >= 2 * _granularity

\* C15: nothing blocks. In every state each now() can be called from another
\* CPU and returns in that one step, whatever position update() is at and
\* whatever the other readers did; CPU0 can call whenever it is between tasks;
\* and every step of an update() in flight can be taken at once, whatever the
\* readers are doing.
C15_NeverBlocks ==
    /\ \A c \in Contexts \ {Designated} :
          /\ ENABLED lowres_clock_now(c)
          /\ ENABLED lowres_system_clock_now(c)
    /\ cpu0_idle =>
          /\ ENABLED lowres_clock_now(Designated)
          /\ ENABLED lowres_system_clock_now(Designated)
    /\ task.at = "read_system" => ENABLED update_read_system
    /\ task.at = "read_steady" => ENABLED update_read_steady
    /\ task.at = "store_system" => ENABLED update_store_system
    /\ task.at = "store_steady" => ENABLED update_store_steady
    /\ task.at = "arm" => ENABLED ctor_arm_periodic

\* lowres_system_clock::now() called from another CPU between the two stores
\* of a timer refresh: it returned the reading that refresh had just stored.
C15_Witness ==
    /\ task.at = "store_steady"
    /\ task.via = "timer"
    /\ seen.clock = "system"
    /\ seen.ctx # Designated
    /\ ~seen.dirty
    /\ ~seen.failed
    /\ seen.val = task.system_count.count
    /\ _system_count.at > _steady_count.at

\* The calendar second of the cached wall time is the calendar second of the
\* reading the cell holds, and with the cell refreshed since the latest
\* correction it is the precise clock's calendar second or the one before.
CalendarSecondOfReading ==
    _system_count.clock = "system" =>
        /\ to_time_t(system_now(_system_count).val) = system_clock_to_time_t(_system_count.raw)
        /\ RefreshedSinceAdjust =>
              system_clock_to_time_t(system_clock) - to_time_t(system_now(_system_count).val)
                  \in {0, 1}

\* C17: while the refresher is Active, to_time_t(lowres_system_clock::now())
\* and std::chrono::system_clock::to_time_t(system_clock::now()), taken back to
\* back, are the same calendar second.
C17_SameCalendarSecond ==
    Phase = "Active" =>
        to_time_t(system_now(_system_count).val) = system_clock_to_time_t(system_clock)

\* C16: from_time_t(to_time_t(t)) is a whole number of seconds, less than one
\* second away from t and never further from the epoch than t (the sub-second
\* part is truncated), and it equals t exactly when t is a whole second.
C16_CalendarRoundTrip ==
    cal.op = "round_trip" =>
        /\ cal.res % MsPerSec = 0
        /\ cal.res - cal.arg < MsPerSec
        /\ cal.arg - cal.res < MsPerSec
        /\ cal.arg >= 0 => cal.res <= cal.arg /\ cal.res >= 0
        /\ cal.arg <= 0 => cal.res >= cal.arg /\ cal.res <= 0
        /\ cal.res = cal.arg <=> cal.arg % MsPerSec = 0

\* 1999 ms converted to calendar seconds and back: 1000 ms.
C16_Witness ==
    /\ cal.op = "round_trip"
    /\ cal.arg = 2 * MsPerSec - 1
    /\ cal.res = MsPerSec

\* C18 as stated: from_time_t(s) is the time point 1000 * s ms after the
\* epoch for every s, whatever the state it is called in.
C18_FromTimeTOfEverySecond ==
    cal.op = "from_time_t" => cal.res = cal.arg * MsPerSec

\* C18 amended: for every s whose millisecond count the rep holds,
\* from_time_t(s) is the time point 1000 * s ms after the epoch whatever the
\* cached values, the lifecycle state and the time, and the call reads and
\* changes no shared state; for the other s the multiplication overflows.
C18_FromTimeTOfRepresentable ==
    /\ (cal.op = "from_time_t" /\ cal.arg * MsPerSec \in Rep) =>
          cal.res = cal.arg * MsPerSec
    /\ \A s \in CalendarSeconds :
          s * MsPerSec \in Rep => from_time_t(s) = {s * MsPerSec}

\* from_time_t(-1) called with the refresher Active and the wall cell holding
\* a reading with a sub-second part.
C18_Witness ==
    /\ cal.op = "from_time_t"
    /\ cal.arg = 0 - 1
    /\ cal.res = 0 - MsPerSec
    /\ Phase = "Active"
    /\ system_now(_system_count).val % MsPerSec # 0

C19_SleepFullyElapsed ==
    (sleeper.at = "done" /\ sleeper.test = "steady_clock_sanity") =>
        sleeper.t2 - sleeper.t1 >= SleepMs

\* What the cached clock does show after the sleep: more than the duration
\* less one refresh period and the rounding.
SleepElapsedOnCachedClock ==
    (sleeper.at = "done" /\ sleeper.test = "steady_clock_sanity") =>
        sleeper.t2 - sleeper.t1 > SleepMs - GranularityMs - 1

C22_BusyWaitAnyContext ==
    (sleeper.at = "done" /\ sleeper.test = "busy_wait_scenario") =>
        /\ sleeper.t2 > sleeper.t1
        /\ sleeper.t2 - sleeper.t1 >= 80
        /\ sleeper.t2 - sleeper.t1 <= 160

\* C22 amended: that holds for a busy-wait on a context other than CPU0 while
\* CPU0 serves the refresher's timer less than a period late; after a
\* busy-wait on CPU0 itself, which keeps the reactor from running the timer
\* callback, the second reading equals the first.
C22_BusyWaitOffDesignated ==
    (sleeper.at = "done" /\ sleeper.test = "busy_wait_scenario") =>
        IF sleeper.ctx = Designated
        THEN /\ sleeper.t2 = sleeper.t1
             /\ steady_clock - sleeper.start >= BusyWaitMs * NsPerMs
        ELSE /\ sleeper.t2 > sleeper.t1
             /\ sleeper.t2 - sleeper.t1 >= 80
             /\ sleeper.t2 - sleeper.t1 <= 160

\* A busy-wait on another CPU that ended while a refresh was overdue: the
\* cached clock advanced by less than the 100 ms waited.
C22_Witness ==
    /\ sleeper.at = "done"
    /\ sleeper.test = "busy_wait_scenario"
    /\ sleeper.ctx # Designated
    /\ steady_clock = sleeper.wake
    /\ sleeper.t2 - sleeper.t1 < BusyWaitMs
    /\ sleeper.t2 >= sleeper.t1 + 80

\* The associations of one value of --logger-log-level, in the order written.
AssociationsOf(v) ==
    LET ts == sregex_token_iterator(v, Empty, FALSE)
    IN  [i \in DOMAIN ts |->
            <<SubSeq(ts[i], 1, find(ts[i], "=", 1) - 1),
              SubSeq(ts[i], find(ts[i], "=", 1) + 1, Len(ts[i]))>>]

\* The associations of all the occurrences, in command-line order.
RECURSIVE AllAssociations(_)
AllAssociations(occurrences) ==
    IF occurrences = << >> THEN << >>
    ELSE AssociationsOf(Head(occurrences)) \o AllAssociations(Tail(occurrences))

\* The loggers a command line names.
Named(A) == {A[i][1] : i \in DOMAIN A}

\* The level that the last association of logger k in A gives it.
LastAssociation(A, k) ==
    A[CHOOSE i \in DOMAIN A : A[i][1] = k /\ \A j \in DOMAIN A : j > i => A[j][1] # k][2]

\* A step of parse_and_configure: the loggers registered stay the same.
ConfigureStep == DOMAIN global_log_registry' = DOMAIN global_log_registry

\* C23: the occurrences of --logger-log-level, each with one or more
\* NAME=LEVEL associations separated by ':', are merged into one map that
\* holds, for every logger named, the level of its last association in
\* command-line order; after a configure that succeeded that is the logger's
\* level.
C23_LastAssociationWins ==
    [][(ConfigureStep /\ cli'.called /\ cli'.thrown # "invalid_option_value") =>
          \A A \in {AllAssociations(cli'.args.logger_log_level)} :
              /\ DOMAIN cli'.lv = Named(A)
              /\ \A k \in Named(A) : cli'.lv[k] = LastAssociation(A, k)
              /\ cli'.thrown = "none" =>
                    \A k \in Named(A) :
                        /\ k \in DOMAIN global_log_registry'
                        /\ <<global_log_registry'[k]>> = LastAssociation(A, k)]_vars

\* The command line of the test has been applied: log1, named in both
\* occurrences, has the level of the second.
C23_Witness ==
    /\ cli.called
    /\ cli.thrown = "none"
    /\ cli.args.logger_log_level =
          << <<"log1", "=", "debug", ":", "log3", "=", "debug">>,
             <<"log2", "=", "warn", ":", "log1", "=", "error">> >>
    /\ global_log_registry[<<"log1">>] = "error"
    /\ global_log_registry[<<"log2">>] = "warn"
    /\ global_log_registry[<<"log3">>] = "debug"

\* C25: configure with a --default-log-level that is no level name throws
\* std::runtime_error and changes the level of no registered logger.
C25_UnknownDefaultLevel ==
    [][(ConfigureStep /\ cli'.called /\ cli'.thrown # "invalid_option_value"
            /\ cli'.args.default_log_level \notin {<<l>> : l \in log_level}) =>
          /\ cli'.thrown = "runtime_error"
          /\ global_log_registry' = global_log_registry]_vars

\* configure has thrown on --default-log-level foo with associations given:
\* the loggers keep the levels an earlier configure gave them.
C25_Witness ==
    /\ cli.called
    /\ cli.thrown = "runtime_error"
    /\ cli.args.default_log_level = <<"foo">>
    /\ DOMAIN cli.lv # {}
    /\ <<"log1">> \in DOMAIN global_log_registry
    /\ global_log_registry[<<"log1">>] = "error"
    /\ ~logger_outputs.stdout

\* C26: after a configure that succeeded every registered logger named in
\* --logger-log-level has the level associated with it and every other
\* registered logger has the default level.
C26_DefaultThenAssociations ==
    [][(ConfigureStep /\ cli'.called /\ cli'.thrown = "none") =>
          \A A \in {AllAssociations(cli'.args.logger_log_level)} :
              \A n \in DOMAIN global_log_registry' :
                  <<global_log_registry'[n]>> =
                      IF n \in Named(A) THEN LastAssociation(A, n)
                      ELSE cli'.args.default_log_level]_vars

\* --default-log-level debug with associations for log1 and log2: log3, not
\* named, has the default level.
C26_Witness ==
    /\ cli.called
    /\ cli.thrown = "none"
    /\ cli.args.default_log_level = <<"debug">>
    /\ cli.args.logger_log_level = << <<"log2", "=", "warn", ":", "log1", "=", "error">> >>
    /\ global_log_registry[<<"log1">>] = "error"
    /\ global_log_registry[<<"log2">>] = "warn"
    /\ <<"log3">> \in DOMAIN global_log_registry
    /\ global_log_registry[<<"log3">>] = "debug"

\* The entries of a value: what lies before, between and after its ':'.
RECURSIVE Entries(_, _)
Entries(v, cur) ==
    IF v = Empty THEN <<cur>>
    ELSE IF Head(v) = ":" THEN <<cur>> \o Entries(Tail(v), Empty)
         ELSE Entries(Tail(v), Append(cur, Head(v)))

\* The entries of value v that hold no '='.
WithoutEquals(v) ==
    {i \in DOMAIN Entries(v, Empty) : find(Entries(v, Empty)[i], "=", 1) = 0}

\* C24 as stated: a value with any ':'-separated entry that holds no '=' makes
\* the parse throw invalid_option_value, and no logger level changes.
C24_AnyEntryWithoutEquals ==
    [][(ConfigureStep /\ cli'.called /\ Len(cli'.args.logger_log_level) = 1) =>
          \A v \in {cli'.args.logger_log_level[1]} :
              WithoutEquals(v) # {} =>
                  /\ cli'.thrown = "invalid_option_value"
                  /\ global_log_registry' = global_log_registry]_vars

\* C24 amended: the parse throws invalid_option_value, and no logger level
\* changes, exactly when an entry other than an empty one after the last ':'
\* holds no '='; an empty entry after the last ':' is not seen.
C24_EntryWithoutEquals ==
    [][(ConfigureStep /\ cli'.called /\ Len(cli'.args.logger_log_level) = 1) =>
          \A v \in {cli'.args.logger_log_level[1]} :
              \A es \in {Entries(v, Empty)} :
                  IF \E i \in WithoutEquals(v) : ~(i = Len(es) /\ i > 1 /\ es[i] = Empty)
                  THEN /\ cli'.thrown = "invalid_option_value"
                       /\ global_log_registry' = global_log_registry
                       /\ logger_outputs' = logger_outputs
                  ELSE cli'.thrown # "invalid_option_value"]_vars

\* The value "log1:" of the test has made the parse throw: log1 keeps the
\* level an earlier command line gave it.
C24_Witness ==
    /\ cli.called
    /\ cli.thrown = "invalid_option_value"
    /\ cli.args.logger_log_level = << <<"log1", ":">> >>
    /\ <<"log1">> \in DOMAIN global_log_registry
    /\ global_log_registry[<<"log1">>] = "debug"

\* C27: the tuple generated from <I1, ..., In> has n elements, the k-th is
\* what the k-th call of f returned, and the calls of f were f(I1), ...,
\* f(In) in that order.
C27_GeneratedInSequenceOrder ==
    generated.by # "none" =>
        /\ Len(generated.result) = Len(generated.Is)
        /\ generated.calls = generated.Is
        /\ \A k \in DOMAIN generated.Is :
              generated.result[k] = call(generated.f, generated.Is[k], k - 1)

\* The function with a state over a sequence that does not ascend: each
\* element shows which call made it.
C27_Witness ==
    /\ generated.by = "indices"
    /\ generated.f = "counting"
    /\ generated.Is = <<2, 0, 1>>
    /\ generated.result = <<2, 10, 21>>
    /\ generated.calls = <<2, 0, 1>>

\* C28: whenever now() is called on the variants run side by side on the same
\* readings, the variant that stores the native count and converts at the
\* read, the variant that converts at the refresh and clock_impl return the
\* same count of milliseconds.
C28_VariantsReturnTheSame ==
    compared.clock # "none" =>
        /\ compared.native = compared.ms
        /\ compared.generic = compared.ms

\* A call after a timer refresh whose reading was not a whole number of
\* milliseconds, made while the wall clock has been set back.
C28_Witness ==
    /\ compared.clock = "system"
    /\ adjusts > 0
    /\ _system_count.at > SteadyStart
    /\ _system_count.raw > compared.ms * NsPerMs
    /\ compared.native = compared.ms
    /\ compared.ms = _system_count.count

\* C29: once the steady cell has been stored to, what lowres_clock::now()
\* returns is at most the precise steady clock's reading truncated to
\* milliseconds, in every state: Constructing, Active and after the teardown.
C29_NeverAheadOfSource ==
    _steady_count.clock = "steady" =>
        steady_now(_steady_count).val <= duration_cast_coarser(steady_clock, NsPerMs)

\* Right after a timer refresh the cached value is the truncated precise
\* reading itself, the precise clock being a fraction of a millisecond on.
C29_Witness ==
    /\ _steady_count.clock = "steady"
    /\ _steady_count.at > SteadyStart
    /\ steady_now(_steady_count).val = duration_cast_coarser(steady_clock, NsPerMs)
    /\ steady_now(_steady_count).val * NsPerMs < steady_clock

\* What lowres_system_clock::now() of lowres_system_clock.hh is ahead of
\* lowres_clock::now() by, both computed from the same content of the cell.
OffsetFromRef ==
    lowres_system_clock_now_from_ref(_steady_count).val - steady_now(_steady_count).val

Failing(lv, registry) ==
    {k \in DOMAIN lv : k \notin DOMAIN registry \/ lv[k] \notin {<<l>> : l \in log_level}}

\* C31: a configure that got past the default level and meets an association
\* naming an unregistered logger or an unknown level throws
\* std::runtime_error with the default level already applied: every
\* registered logger then has the default level or, where the loop applied
\* its association before it failed, the level associated with it; the
\* outputs to stdout and to syslog are as they were before the call.
C31_NotAtomicOnAssociationErrors ==
    [][(ConfigureStep /\ cli'.called /\ cli'.thrown # "invalid_option_value"
            /\ cli'.args.default_log_level \in {<<l>> : l \in log_level}
            /\ Failing(cli'.lv, global_log_registry) # {}) =>
          /\ cli'.thrown = "runtime_error"
          /\ logger_outputs' = logger_outputs
          /\ \A n \in DOMAIN global_log_registry' :
                \/ <<global_log_registry'[n]>> = cli'.args.default_log_level
                \/ /\ n \in DOMAIN cli'.lv \ Failing(cli'.lv, global_log_registry)
                   /\ <<global_log_registry'[n]>> = cli'.lv[n]]_vars

\* The first configure of the run failed on log2, which is not registered,
\* after it had given log1 the level of its association over the default
\* level debug; stdout is still enabled although the command line disables
\* it.
C31_Witness ==
    /\ cli.called
    /\ cli.thrown = "runtime_error"
    /\ cli.args.default_log_level = <<"debug">>
    /\ ~cli.args.log_to_stdout
    /\ DOMAIN cli.lv = {<<"log1">>, <<"log2">>}
    /\ DOMAIN global_log_registry = {<<"log1">>}
    /\ global_log_registry[<<"log1">>] = "error"
    /\ logger_outputs.stdout

====
